---- MODULE Spec2Model ----
(***************************************************************************)
(* Sports-websockets: the Express application of src/README.md (the        *)
(* listing of src/index.js, lines 253-522) over the two tables of          *)
(* src/src/db/schema.js.  The store is the two tables with their serial    *)
(* sequences and the database clock; every endpoint handler is one action  *)
(* that runs the JSON middleware, the handler's try block with its single  *)
(* statement, and the handler's catch block or the error middleware.       *)
(***************************************************************************)
EXTENDS Integers, Sequences, FiniteSets, TLC

VARIABLES matches, commentary, matchSerial, commentarySerial, now, inflight, last

vars == <<matches, commentary, matchSerial, commentarySerial, now, inflight, last>>

(***************************************************************************)
(* Bounds of the model.                                                    *)
(***************************************************************************)
MaxMatches == 2
MaxCommentary == 2
MaxOrdered == 3
MaxCreated == 1
MaxClock == 2
MaxInflight == 1

(***************************************************************************)
(* JavaScript values: what a request body, a query string and a row        *)
(* returned as JSON are made of.  t is the type tag, n the numeric         *)
(* content and s the textual content.                                      *)
(***************************************************************************)
Undefined == [t |-> "undefined", n |-> 0, s |-> ""]
Null == [t |-> "null", n |-> 0, s |-> ""]
Num(k) == [t |-> "number", n |-> k, s |-> ""]
NaN == [t |-> "number", n |-> 0, s |-> "NaN"]
Str(x) == [t |-> "string", n |-> 0, s |-> x]
Arr(x) == [t |-> "array", n |-> 0, s |-> x]
Obj(x) == [t |-> "object", n |-> 0, s |-> x]
Date(k) == [t |-> "date", n |-> k, s |-> ""]
InvalidDate == [t |-> "date", n |-> 0, s |-> "Invalid Date"]

\* JavaScript truthiness, as `!x` and `x || d` use it
Falsy(v) ==
    \/ v.t \in {"undefined", "null"}
    \/ v.t = "number" /\ v.n = 0
    \/ v.t = "string" /\ v.s = ""

Truthy(v) == ~Falsy(v)

\* a || d
OrElse(v, d) == IF Falsy(v) THEN d ELSE v

\* parseInt on a path parameter, given as its characters: the value of the
\* leading decimal digits, NaN when there is none
DigitValue == [c \in {"0", "1", "2", "3", "4", "5", "6", "7", "8", "9"} |->
    CASE c = "0" -> 0 [] c = "1" -> 1 [] c = "2" -> 2 [] c = "3" -> 3
      [] c = "4" -> 4 [] c = "5" -> 5 [] c = "6" -> 6 [] c = "7" -> 7
      [] c = "8" -> 8 [] c = "9" -> 9]

RECURSIVE LeadingDigits(_)
LeadingDigits(p) ==
    IF p = <<>> \/ Head(p) \notin DOMAIN DigitValue
    THEN <<>>
    ELSE <<Head(p)>> \o LeadingDigits(Tail(p))

RECURSIVE DecimalValue(_)
DecimalValue(d) ==
    IF d = <<>> THEN 0
    ELSE 10 * DecimalValue(SubSeq(d, 1, Len(d) - 1)) + DigitValue[d[Len(d)]]

parseInt(p) ==
    IF LeadingDigits(p) = <<>> THEN NaN ELSE Num(DecimalValue(LeadingDigits(p)))

\* new Date(x): a string is parsed, null is the epoch, a number is that time
DateStrings == [x \in {"2026-01-01T10:00:00Z", "2026-01-01T12:00:00Z"} |->
    IF x = "2026-01-01T10:00:00Z" THEN 10 ELSE 12]

NewDate(v) ==
    CASE v.t = "string" /\ v.s \in DOMAIN DateStrings -> Date(DateStrings[v.s])
      [] v.t = "null" -> Date(0)
      [] v.t = "number" /\ v.s = "" -> Date(v.n)
      [] OTHER -> InvalidDate

(***************************************************************************)
(* The schema: column types and constraints of the two tables.             *)
(***************************************************************************)
matchStatusEnum == {"scheduled", "live", "finished"}

\* whether the driver and the database accept v as a value of the column type
\* (null is a value of every type; NOT NULL is a constraint on the row)
Binds(type, v) ==
    \/ v = Null
    \/ type = "varchar" /\ v.t = "string"
    \/ type = "text" /\ v.t = "string"
    \/ type = "integer" /\ v.t = "number" /\ v.s = ""
    \/ type = "match_status" /\ v.t = "string" /\ v.s \in matchStatusEnum
    \/ type = "timestamp" /\ v.t = "date" /\ v.s = ""
    \/ type = "jsonb" /\ v.t \in {"object", "string", "number", "array"}
    \/ type = "text[]" /\ v.t = "array"

matchesTable == [
    id |-> [type |-> "integer", notNull |-> TRUE],
    sport |-> [type |-> "varchar", notNull |-> TRUE],
    homeTeam |-> [type |-> "varchar", notNull |-> TRUE],
    awayTeam |-> [type |-> "varchar", notNull |-> TRUE],
    status |-> [type |-> "match_status", notNull |-> TRUE],
    startTime |-> [type |-> "timestamp", notNull |-> TRUE],
    endTime |-> [type |-> "timestamp", notNull |-> FALSE],
    homeScore |-> [type |-> "integer", notNull |-> TRUE],
    awayScore |-> [type |-> "integer", notNull |-> TRUE],
    createdAt |-> [type |-> "timestamp", notNull |-> TRUE]]

commentaryTable == [
    id |-> [type |-> "integer", notNull |-> TRUE],
    matchId |-> [type |-> "integer", notNull |-> TRUE],
    minute |-> [type |-> "integer", notNull |-> FALSE],
    sequence |-> [type |-> "integer", notNull |-> TRUE],
    period |-> [type |-> "varchar", notNull |-> FALSE],
    eventType |-> [type |-> "varchar", notNull |-> TRUE],
    actor |-> [type |-> "varchar", notNull |-> TRUE],
    team |-> [type |-> "varchar", notNull |-> TRUE],
    message |-> [type |-> "text", notNull |-> TRUE],
    metadata |-> [type |-> "jsonb", notNull |-> FALSE],
    tags |-> [type |-> "text[]", notNull |-> FALSE],
    createdAt |-> [type |-> "timestamp", notNull |-> TRUE]]

\* the fields of vals that are given (drizzle drops undefined values)
Given(vals) == {f \in DOMAIN vals : vals[f] # Undefined}

\* every given value is accepted by its column's type
BindsAll(table, vals) == \A f \in Given(vals) : Binds(table[f].type, vals[f])

\* no given value puts null into a NOT NULL column
NotNullOk(table, vals) == \A f \in Given(vals) : table[f].notNull => vals[f] # Null

\* the row with the given values written over it
Written(row, vals) ==
    [f \in DOMAIN row |-> IF f \in Given(vals) THEN vals[f] ELSE row[f]]

(***************************************************************************)
(* The query builder and the database: a statement either fails with an    *)
(* error or yields its returned rows and the tables after it.  M, C are    *)
(* the tables and ms, cs the serial sequences after the statement.         *)
(***************************************************************************)
NoWhere == [col |-> "", val |-> Undefined]

eq(col, val) == [col |-> col, val |-> val]

Select(table) == [from |-> table, where |-> NoWhere, orderBy |-> ""]

\* query.where(cond) on a non-dynamic builder sets the builder's one WHERE slot
Where(q, cond) == [q EXCEPT !.where = cond]

\* query.orderBy(desc(column))
OrderByDropped(q, col) == q
OrderByDesc(q, col) == [q EXCEPT !.orderBy = col]

Rows(table) == IF table = "matches" THEN matches ELSE commentary

Schema(table) == IF table = "matches" THEN matchesTable ELSE commentaryTable

CondBinds(table, cond) ==
    cond = NoWhere \/ Binds(Schema(table)[cond.col].type, cond.val)

Matching(table, cond) ==
    IF cond = NoWhere THEN Rows(table)
    ELSE {r \in Rows(table) : r[cond.col] = cond.val}

Failed(msg, ms, cs) ==
    [err |-> msg, rows |-> {}, M |-> matches, C |-> commentary, ms |-> ms, cs |-> cs]

Returned(rows, M, C, ms, cs) ==
    [err |-> "", rows |-> rows, M |-> M, C |-> C, ms |-> ms, cs |-> cs]

\* the orders in which a SELECT may return the rows S: any order without
\* ORDER BY; with ORDER BY createdAt DESC any order in which no row comes
\* before a row with a later createdAt
ResultOrders(S, order) ==
    {d \in [1..Cardinality(S) -> S] :
        /\ \A i, j \in 1..Cardinality(S) : i # j => d[i] # d[j]
        /\ order = "createdAt" =>
             \A i, j \in 1..Cardinality(S) : i < j => d[i].createdAt.n >= d[j].createdAt.n}

ExecuteSelect(q) ==
    IF ~CondBinds(q.from, q.where)
    THEN Failed("invalid input syntax", matchSerial, commentarySerial)
    ELSE Returned(Matching(q.from, q.where), matches, commentary,
                  matchSerial, commentarySerial)

\* a row is inserted with the column defaults where no value is given
MatchDefaults ==
    [id |-> Num(matchSerial), sport |-> Null, homeTeam |-> Null, awayTeam |-> Null,
     status |-> Str("scheduled"), startTime |-> Null, endTime |-> Null,
     homeScore |-> Num(0), awayScore |-> Num(0), createdAt |-> Date(now)]

CommentaryDefaults ==
    [id |-> Num(commentarySerial), matchId |-> Null, minute |-> Null,
     sequence |-> Null, period |-> Null, eventType |-> Null, actor |-> Null,
     team |-> Null, message |-> Null, metadata |-> Null, tags |-> Null,
     createdAt |-> Date(now)]

RowNotNull(table, row) == \A f \in DOMAIN row : Schema(table)[f].notNull => row[f] # Null

\* commentary.match_id references matches.id
ForeignKeyUnchecked(row) == TRUE
ForeignKeyOk(row) == \E m \in matches : m.id = row.matchId

InsertMatch(vals) ==
    IF ~BindsAll(matchesTable, vals)
    THEN Failed("invalid input syntax", matchSerial, commentarySerial)
    ELSE LET row == Written(MatchDefaults, vals)
         IN  IF ~RowNotNull("matches", row)
             THEN Failed("violates not-null constraint", matchSerial + 1, commentarySerial)
             ELSE Returned({row}, matches \cup {row}, commentary,
                           matchSerial + 1, commentarySerial)

InsertCommentary(vals) ==
    IF ~BindsAll(commentaryTable, vals)
    THEN Failed("invalid input syntax", matchSerial, commentarySerial)
    ELSE LET row == Written(CommentaryDefaults, vals)
         IN  IF ~RowNotNull("commentary", row)
             THEN Failed("violates not-null constraint", matchSerial, commentarySerial + 1)
             ELSE IF ~ForeignKeyOk(row)
             THEN Failed("violates foreign key constraint", matchSerial, commentarySerial + 1)
             ELSE Returned({row}, matches, commentary \cup {row},
                           matchSerial, commentarySerial + 1)

\* UPDATE table SET vals WHERE cond RETURNING *
Update(table, vals, cond) ==
    IF Given(vals) = {}
    THEN Failed("No values to set", matchSerial, commentarySerial)
    ELSE IF ~BindsAll(Schema(table), vals) \/ ~CondBinds(table, cond)
    THEN Failed("invalid input syntax", matchSerial, commentarySerial)
    ELSE LET hit == Matching(table, cond)
             new == {Written(r, vals) : r \in hit}
         IN  IF hit # {} /\ ~NotNullOk(Schema(table), vals)
             THEN Failed("violates not-null constraint", matchSerial, commentarySerial)
             ELSE IF table = "matches"
             THEN Returned(new, (matches \ hit) \cup new, commentary,
                           matchSerial, commentarySerial)
             ELSE Returned(new, matches, (commentary \ hit) \cup new,
                           matchSerial, commentarySerial)

\* ON DELETE CASCADE: the commentary rows of the deleted matches go with them
CascadeKeepsAll(gone) == commentary
Cascade(gone) == {c \in commentary : \A m \in gone : c.matchId # m.id}

DeleteAllRows(table, cond) ==
    IF table = "matches"
    THEN Returned({}, {}, Cascade(matches), matchSerial, commentarySerial)
    ELSE Returned({}, matches, {}, matchSerial, commentarySerial)
Delete(table, cond) ==
    IF ~CondBinds(table, cond)
    THEN Failed("invalid input syntax", matchSerial, commentarySerial)
    ELSE LET hit == Matching(table, cond)
         IN  IF table = "matches"
             THEN Returned({}, matches \ hit, Cascade(hit),
                           matchSerial, commentarySerial)
             ELSE Returned({}, matches, commentary \ hit,
                           matchSerial, commentarySerial)

(***************************************************************************)
(* The handlers.  A handler's try block either sends a response or throws; *)
(* what it yields carries the tables as its statement left them.           *)
(***************************************************************************)
Untouched == Failed("", matchSerial, commentarySerial)

Sent(status, data, error, st) ==
    [thrown |-> FALSE, status |-> status, data |-> data, error |-> error,
     M |-> st.M, C |-> st.C, ms |-> st.ms, cs |-> st.cs]

Thrown(msg, st) ==
    [thrown |-> TRUE, status |-> 0, data |-> <<>>, error |-> msg,
     M |-> st.M, C |-> st.C, ms |-> st.ms, cs |-> st.cs]

\* the one row of a statement that returned one row
Only(rows) == CHOOSE r \in rows : TRUE

\* catch (error) { res.status(400).json({ success: false, error: error.message }) }
CatchRethrows(r) ==
    IF r.thrown
    THEN [r EXCEPT !.thrown = FALSE, !.status = 500, !.error = "Internal server error"]
    ELSE r
Catch(r) == IF r.thrown THEN [r EXCEPT !.thrown = FALSE, !.status = 400] ELSE r

\* app.use((err, req, res, next) => res.status(500)...)
ErrorMiddleware == Sent(500, <<>>, "Internal server error", Untouched)

\* the router decodes the path parameter; a stray % does not decode
DecodeOk(param) == \A i \in 1..Len(param) : param[i] # "%"

\* app.get('/')
RootHandler == {Sent(200, <<>>, "", Untouched)}

\* app.get('/matches')
GetMatchesHandler(query) ==
    LET q0 == Select("matches")
        q1 == IF Truthy(query.status) THEN Where(q0, eq("status", query.status)) ELSE q0
        q2 == IF Truthy(query.sport) THEN Where(q1, eq("sport", query.sport)) ELSE q1
        st == ExecuteSelect(q2)
    IN  IF st.err # "" THEN {Thrown(st.err, st)}
        ELSE {Sent(200, d, "", st) : d \in ResultOrders(st.rows, q2.orderBy)}

\* app.get('/matches/:id')
GetMatchHandler(param) ==
    LET st == ExecuteSelect(Where(Select("matches"), eq("id", parseInt(param))))
    IN  IF st.err # "" THEN {Thrown(st.err, st)}
        ELSE IF st.rows = {} THEN {Sent(404, <<>>, "Match not found", st)}
        ELSE {Sent(200, <<Only(st.rows)>>, "", st)}

\* app.post('/matches')
PostMatchesHandlerTrustsStatus(kind, body) ==
    IF kind # "json" THEN {Thrown("TypeError", Untouched)}
    ELSE IF Falsy(body.sport) \/ Falsy(body.homeTeam) \/ Falsy(body.awayTeam)
            \/ Falsy(body.startTime)
    THEN {Sent(400, <<>>, "Missing required fields", Untouched)}
    ELSE LET st == InsertMatch([sport |-> body.sport, homeTeam |-> body.homeTeam,
                                awayTeam |-> body.awayTeam,
                                startTime |-> NewDate(body.startTime),
                                status |-> OrElse(body.status, Str("scheduled"))])
         IN  IF st.err # "" THEN {Thrown(st.err, st)}
             ELSE {Sent(201, <<Only(st.rows)>>, "", st)}
PostMatchesHandler(kind, body) ==
    IF kind # "json" THEN {Thrown("TypeError", Untouched)}
    ELSE IF Falsy(body.sport) \/ Falsy(body.homeTeam) \/ Falsy(body.awayTeam)
            \/ Falsy(body.startTime)
    THEN {Sent(400, <<>>, "Missing required fields", Untouched)}
    ELSE LET st == InsertMatch([sport |-> body.sport, homeTeam |-> body.homeTeam,
                                awayTeam |-> body.awayTeam,
                                startTime |-> NewDate(body.startTime),
                                status |-> Str("scheduled")])
         IN  IF st.err # "" THEN {Thrown(st.err, st)}
             ELSE {Sent(201, <<Only(st.rows)>>, "", st)}

\* app.put('/matches/:id')
PutMatchHandlerReplaces(param, kind, body) ==
    IF kind # "json" THEN {Thrown("TypeError", Untouched)}
    ELSE LET updateData ==
                 [status |-> OrElse(body.status, Str("scheduled")),
                  homeScore |-> OrElse(body.homeScore, Num(0)),
                  awayScore |-> OrElse(body.awayScore, Num(0)),
                  endTime |-> IF body.endTime # Undefined
                              THEN NewDate(body.endTime) ELSE Null]
             st == Update("matches", updateData, eq("id", parseInt(param)))
         IN  IF st.err # "" THEN {Thrown(st.err, st)}
             ELSE IF st.rows = {} THEN {Sent(404, <<>>, "Match not found", st)}
             ELSE {Sent(200, <<Only(st.rows)>>, "", st)}
PutMatchHandler(param, kind, body) ==
    IF kind # "json" THEN {Thrown("TypeError", Untouched)}
    ELSE LET updateData ==
                 [status |-> body.status, homeScore |-> body.homeScore,
                  awayScore |-> body.awayScore,
                  endTime |-> IF body.endTime # Undefined
                              THEN NewDate(body.endTime) ELSE Undefined]
             st == Update("matches", updateData, eq("id", parseInt(param)))
         IN  IF st.err # "" THEN {Thrown(st.err, st)}
             ELSE IF st.rows = {} THEN {Sent(404, <<>>, "Match not found", st)}
             ELSE {Sent(200, <<Only(st.rows)>>, "", st)}

\* app.delete('/matches/:id')
DeleteMatchHandler(param) ==
    LET st == Delete("matches", eq("id", parseInt(param)))
    IN  IF st.err # "" THEN {Thrown(st.err, st)}
        ELSE {Sent(200, <<>>, "", st)}

\* app.get('/matches/:matchId/commentary')
GetCommentaryHandler(param) ==
    LET q == OrderByDesc(Where(Select("commentary"), eq("matchId", parseInt(param))),
                         "createdAt")
        st == ExecuteSelect(q)
    IN  IF st.err # "" THEN {Thrown(st.err, st)}
        ELSE {Sent(200, d, "", st) : d \in ResultOrders(st.rows, q.orderBy)}

\* app.post('/matches/:matchId/commentary'): the values handed to the insert
CommentaryValues(param, body) ==
    [matchId |-> parseInt(param), minute |-> OrElse(body.minute, Null),
     sequence |-> body.sequence, period |-> OrElse(body.period, Null),
     eventType |-> body.eventType, actor |-> body.actor, team |-> body.team,
     message |-> body.message, metadata |-> OrElse(body.metadata, Null),
     tags |-> OrElse(body.tags, Arr(""))]

\* ... and the insert with its response
CommentaryInsert(vals) ==
    LET st == InsertCommentary(vals)
    IN  IF st.err # "" THEN {Thrown(st.err, st)}
        ELSE {Sent(201, <<Only(st.rows)>>, "", st)}

\* whether the handler's validation passes
CommentaryValid(body) ==
    ~(Falsy(body.sequence) \/ Falsy(body.eventType) \/ Falsy(body.actor)
      \/ Falsy(body.team) \/ Falsy(body.message))

PostCommentaryHandler(param, kind, body) ==
    IF kind # "json" THEN {Thrown("TypeError", Untouched)}
    ELSE IF ~CommentaryValid(body)
    THEN {Sent(400, <<>>, "Missing required fields", Untouched)}
    ELSE CommentaryInsert(CommentaryValues(param, body))

\* app.put('/commentary/:id')
PutCommentaryHandlerUnchecked(param, kind, body) ==
    IF kind # "json" THEN {Thrown("TypeError", Untouched)}
    ELSE LET updateData == [message |-> body.message, metadata |-> body.metadata]
             st == Update("commentary", updateData, eq("id", parseInt(param)))
         IN  IF st.err # "" THEN {Thrown(st.err, st)}
             ELSE {Sent(200, IF st.rows = {} THEN <<>> ELSE <<Only(st.rows)>>, "", st)}
PutCommentaryHandler(param, kind, body) ==
    IF kind # "json" THEN {Thrown("TypeError", Untouched)}
    ELSE LET updateData == [message |-> body.message, metadata |-> body.metadata]
             st == Update("commentary", updateData, eq("id", parseInt(param)))
         IN  IF st.err # "" THEN {Thrown(st.err, st)}
             ELSE IF st.rows = {} THEN {Sent(404, <<>>, "Commentary not found", st)}
             ELSE {Sent(200, <<Only(st.rows)>>, "", st)}

\* app.delete('/commentary/:id')
DeleteCommentaryHandler(param) ==
    LET st == Delete("commentary", eq("id", parseInt(param)))
    IN  IF st.err # "" THEN {Thrown(st.err, st)}
        ELSE {Sent(200, <<>>, "", st)}

(***************************************************************************)
(* Requests.  A request is its path parameter (its characters), the kind   *)
(* of its body (a JSON object, none, or text that is not JSON) and the     *)
(* fields of the body or of the query string, undefined where not given.   *)
(* last is the request served last with its response; last.before is the   *)
(* number of rows each table held when the request arrived.                *)
(***************************************************************************)
NoInput == [none |-> Undefined]

MatchBody(sport, homeTeam, awayTeam, startTime, status, homeScore) ==
    [sport |-> sport, homeTeam |-> homeTeam, awayTeam |-> awayTeam,
     startTime |-> startTime, status |-> status, homeScore |-> homeScore]

UpdateBody(status, homeScore, awayScore, endTime) ==
    [status |-> status, homeScore |-> homeScore, awayScore |-> awayScore,
     endTime |-> endTime]

CommentaryBody(minute, period, message, metadata, tags) ==
    [minute |-> minute, sequence |-> Num(1), period |-> period,
     eventType |-> Str("goal"), actor |-> Str("Messi"), team |-> Str("A"),
     message |-> message, metadata |-> metadata, tags |-> tags]

CommentaryUpdate(message, metadata) == [message |-> message, metadata |-> metadata]

Query(status, sport) == [status |-> status, sport |-> sport]

Request(param, kind, input) == [param |-> param, kind |-> kind, input |-> input]

\* express.json(), the router, the handler with its catch block, the error
\* middleware: the response and the store after the request
Serve(op, req, results) ==
    \E raw \in results :
        LET r == IF req.kind = "malformed" \/ ~DecodeOk(req.param)
                 THEN ErrorMiddleware ELSE Catch(raw)
        IN  /\ matches' = r.M
            /\ commentary' = r.C
            /\ matchSerial' = r.ms
            /\ commentarySerial' = r.cs
            /\ last' = [op |-> op, param |-> req.param, kind |-> req.kind,
                        input |-> req.input, status |-> r.status, data |-> r.data,
                        error |-> r.error, sawMatch |-> FALSE,
                        before |-> <<Cardinality(matches), Cardinality(commentary)>>]
            /\ UNCHANGED <<now, inflight>>

GetRoot(req) == Serve("GET /", req, RootHandler)

GetMatches(req) == Serve("GET /matches", req, GetMatchesHandler(req.input))

GetMatch(req) == Serve("GET /matches/:id", req, GetMatchHandler(req.param))

PostMatches(req, cap) ==
    /\ matchSerial <= cap
    /\ Serve("POST /matches", req, PostMatchesHandler(req.kind, req.input))

PutMatch(req) ==
    Serve("PUT /matches/:id", req, PutMatchHandler(req.param, req.kind, req.input))

DeleteMatch(req) == Serve("DELETE /matches/:id", req, DeleteMatchHandler(req.param))

GetCommentary(req) ==
    Serve("GET /matches/:matchId/commentary", req, GetCommentaryHandler(req.param))

PostCommentary(req, cap) ==
    /\ commentarySerial <= cap
    /\ Serve("POST /matches/:matchId/commentary", req,
             PostCommentaryHandler(req.param, req.kind, req.input))

PutCommentary(req) ==
    Serve("PUT /commentary/:id", req,
          PutCommentaryHandler(req.param, req.kind, req.input))

DeleteCommentary(req) ==
    Serve("DELETE /commentary/:id", req, DeleteCommentaryHandler(req.param))

\* the handler of POST /matches/:matchId/commentary up to its await: the
\* request is in flight with the values it will insert (sawMatch records
\* whether its match existed then)
PostCommentaryAwait(req, cap) ==
    /\ commentarySerial + Cardinality(inflight) <= cap
    /\ Cardinality(inflight) < MaxInflight
    /\ req.kind = "json"
    /\ DecodeOk(req.param)
    /\ CommentaryValid(req.input)
    /\ inflight' = inflight \cup
           {[param |-> req.param, input |-> req.input,
             vals |-> CommentaryValues(req.param, req.input),
             sawMatch |-> \E m \in matches : m.id = parseInt(req.param)]}
    /\ UNCHANGED <<matches, commentary, matchSerial, commentarySerial, now, last>>

\* ... and from its await on: the insert, and the response
PostCommentaryResume ==
    \E req \in inflight :
        \E raw \in CommentaryInsert(req.vals) :
            LET r == Catch(raw)
            IN  /\ matches' = r.M
                /\ commentary' = r.C
                /\ matchSerial' = r.ms
                /\ commentarySerial' = r.cs
                /\ inflight' = inflight \ {req}
                /\ last' = [op |-> "POST /matches/:matchId/commentary",
                            param |-> req.param, kind |-> "json", input |-> req.input,
                            status |-> r.status, data |-> r.data, error |-> r.error,
                            sawMatch |-> req.sawMatch,
                            before |-> <<Cardinality(matches), Cardinality(commentary)>>]
                /\ UNCHANGED now

\* the database clock
Tick ==
    /\ now < MaxClock
    /\ now' = now + 1
    /\ UNCHANGED <<matches, commentary, matchSerial, commentarySerial, inflight, last>>

Init ==
    /\ matches = {}
    /\ commentary = {}
    /\ matchSerial = 1
    /\ commentarySerial = 1
    /\ now = 0
    /\ inflight = {}
    /\ last = [op |-> "", param |-> <<>>, kind |-> "absent", input |-> NoInput,
               status |-> 0, data |-> <<>>, error |-> "", sawMatch |-> FALSE,
               before |-> <<0, 0>>]

(***************************************************************************)
(* The requests the specifications draw from.                              *)
(***************************************************************************)
StartTime == Str("2026-01-01T10:00:00Z")

EndTime == Str("2026-01-01T12:00:00Z")

\* requests without a body to the paths with the given parameters, and one
\* whose body is not JSON
Bare(params) ==
    {Request(p, "absent", NoInput) : p \in params}
        \cup {Request(p, "malformed", NoInput) : p \in {<<"1">>} \cap params}

\* requests with the given JSON bodies to the paths with the given
\* parameters, one without a body and one whose body is not JSON
WithBody(params, bodies) ==
    {Request(p, "json", b) : p \in params, b \in bodies}
        \cup {Request(p, k, NoInput) : p \in {<<"1">>, <<>>} \cap params,
                                      k \in {"absent", "malformed"}}

Params == {<<"1">>, <<"2">>, <<"x">>, <<"%">>}

OneMatchBody == MatchBody(Str("football"), Str("A"), Str("B"), StartTime, Undefined, Undefined)

MatchBodies == {OneMatchBody, [OneMatchBody EXCEPT !.sport = Undefined]}

UpdateBodies ==
    {UpdateBody(st, Undefined, Undefined, Undefined) : st \in {Undefined, Str("live")}}

OneCommentaryBody == CommentaryBody(Undefined, Undefined, Str("kick-off"), Undefined, Undefined)

CommentaryBodies == {OneCommentaryBody, [OneCommentaryBody EXCEPT !.message = Undefined]}

CommentaryUpdates ==
    {CommentaryUpdate(m, Undefined) : m \in {Undefined, Str("corrected")}}

(***************************************************************************)
(* Spec: the ten endpoints, each request served in one step.               *)
(***************************************************************************)
RootRequests == {Request(<<>>, k, NoInput) : k \in {"absent", "malformed"}}

MatchesRequests ==
    {Request(<<>>, "absent", Query(Undefined, Undefined)),
     Request(<<>>, "malformed", Query(Undefined, Undefined)),
     Request(<<>>, "absent", Query(Str("live"), Undefined)),
     Request(<<>>, "absent", Query(Str("bogus"), Undefined))}

RowRequests == Bare(Params)

PostMatchesRequests == WithBody({<<>>}, MatchBodies)

PutMatchRequests == WithBody({<<"1">>, <<"x">>, <<"%">>}, UpdateBodies)

PostCommentaryRequests == WithBody(Params, CommentaryBodies)

PutCommentaryRequests == WithBody({<<"1">>, <<"x">>, <<"%">>}, CommentaryUpdates)

Next ==
    \/ \E req \in RootRequests : GetRoot(req)
    \/ \E req \in MatchesRequests : GetMatches(req)
    \/ \E req \in RowRequests : GetMatch(req)
    \/ \E req \in PostMatchesRequests : PostMatches(req, MaxMatches)
    \/ \E req \in PutMatchRequests : PutMatch(req)
    \/ \E req \in RowRequests : DeleteMatch(req)
    \/ \E req \in RowRequests : GetCommentary(req)
    \/ \E req \in PostCommentaryRequests : PostCommentary(req, MaxCommentary)
    \/ \E req \in PutCommentaryRequests : PutCommentary(req)
    \/ \E req \in RowRequests : DeleteCommentary(req)

Spec == Init /\ [][Next]_vars

(***************************************************************************)
(* SpecFilter: the match endpoints with every combination of the two       *)
(* filters of GET /matches over matches of two sports.                     *)
(***************************************************************************)
FilterQueries ==
    {Query(st, sp) : st \in {Undefined, Str("live"), Str("scheduled")},
                     sp \in {Undefined, Str("football"), Str("cricket")}}

FilterRequests == {Request(<<>>, "absent", q) : q \in FilterQueries}

TwoSports ==
    {Request(<<>>, "json", [OneMatchBody EXCEPT !.sport = Str(sp)]) :
        sp \in {"football", "cricket"}}

GoLive ==
    {Request(p, "json", UpdateBody(Str("live"), Undefined, Undefined, Undefined)) :
        p \in {<<"1">>, <<"2">>}}

FirstRow == {Request(<<"1">>, "absent", NoInput)}

NextFilter ==
    \/ \E req \in FilterRequests : GetMatches(req)
    \/ \E req \in TwoSports : PostMatches(req, MaxMatches)
    \/ \E req \in GoLive : PutMatch(req)
    \/ \E req \in FirstRow : DeleteMatch(req)

SpecFilter == Init /\ [][NextFilter]_vars

(***************************************************************************)
(* SpecRace: the ten endpoints with well-formed requests, and commentary   *)
(* inserts that are in flight across their await while other requests are  *)
(* served.                                                                 *)
(***************************************************************************)
NoPath == {Request(<<>>, "absent", NoInput)}

Unfiltered == {Request(<<>>, "absent", Query(Undefined, Undefined))}

OneMatch == {Request(<<>>, "json", OneMatchBody)}

FirstGoesLive ==
    {Request(<<"1">>, "json", UpdateBody(Str("live"), Undefined, Undefined, Undefined))}

TwoRows == {Request(p, "absent", NoInput) : p \in {<<"1">>, <<"2">>}}

TwoComments == {Request(p, "json", OneCommentaryBody) : p \in {<<"1">>, <<"2">>}}

FirstCorrected ==
    {Request(<<"1">>, "json", CommentaryUpdate(Str("corrected"), Undefined))}

NextRace ==
    \/ \E req \in NoPath : GetRoot(req)
    \/ \E req \in Unfiltered : GetMatches(req)
    \/ \E req \in FirstRow : GetMatch(req)
    \/ \E req \in OneMatch : PostMatches(req, MaxMatches)
    \/ \E req \in FirstGoesLive : PutMatch(req)
    \/ \E req \in TwoRows : DeleteMatch(req)
    \/ \E req \in FirstRow : GetCommentary(req)
    \/ \E req \in TwoComments :
           \/ PostCommentary(req, MaxCommentary)
           \/ PostCommentaryAwait(req, MaxCommentary)
    \/ PostCommentaryResume
    \/ \E req \in FirstCorrected : PutCommentary(req)
    \/ \E req \in FirstRow : DeleteCommentary(req)

SpecRace == Init /\ [][NextRace]_vars

(***************************************************************************)
(* SpecUpdate: the two PUT endpoints with every subset of their fields,    *)
(* and with values the database refuses, on the first row of each table    *)
(* and on an id no row has.                                                *)
(***************************************************************************)
MatchUpdates ==
    {UpdateBody(st, hs, as, et) : st \in {Undefined, Str("live")},
                                  hs \in {Undefined, Num(2)},
                                  as \in {Undefined, Num(3)},
                                  et \in {Undefined, EndTime}}
        \cup {UpdateBody(st, Undefined, Undefined, Undefined) : st \in {Null, Str("postponed")}}
        \cup {UpdateBody(Undefined, Undefined, Undefined, et) : et \in {Null, Str("later")}}

CommentaryEdits ==
    {CommentaryUpdate(m, md) : m \in {Undefined, Str("corrected")},
                               md \in {Undefined, Obj("var")}}
        \cup {CommentaryUpdate(Null, Undefined)}

OneComment == {Request(<<"1">>, "json", OneCommentaryBody)}

PutMatchUpdates ==
    {Request(p, "json", b) : p \in {<<"1">>, <<"1", "2">>}, b \in MatchUpdates}

PutCommentaryEdits ==
    {Request(p, "json", b) : p \in {<<"1">>, <<"1", "2">>}, b \in CommentaryEdits}

NextUpdate ==
    \/ \E req \in OneMatch : PostMatches(req, MaxMatches)
    \/ \E req \in OneComment : PostCommentary(req, MaxCommentary)
    \/ \E req \in PutMatchUpdates : PutMatch(req)
    \/ \E req \in PutCommentaryEdits : PutCommentary(req)

SpecUpdate == Init /\ [][NextUpdate]_vars

(***************************************************************************)
(* SpecCreate: the two POST endpoints with required fields missing, empty  *)
(* or unparseable, and with the optional fields given or not.              *)
(***************************************************************************)
NewMatches ==
    {MatchBody(sp, ht, Str("B"), t, st, hs) :
        sp \in {Undefined, Str(""), Str("football")},
        ht \in {Undefined, Str("A")},
        t \in {Undefined, StartTime, Str("soon")},
        st \in {Undefined, Str("live")},
        hs \in {Undefined, Num(5)}}

NewCommentary ==
    {CommentaryBody(mi, Undefined, Str("kick-off"), Undefined, Undefined) :
        mi \in {Undefined, Num(0), Num(45)}}
        \cup {CommentaryBody(Undefined, pe, Str("kick-off"), md, tg) :
                  pe \in {Undefined, Str("H1")},
                  md \in {Undefined, Obj("var")},
                  tg \in {Undefined, Arr("goal")}}
        \cup {CommentaryBody(Num(45), Str("H1"), Undefined, Undefined, Undefined)}

PostNewMatches == {Request(<<>>, "json", b) : b \in NewMatches}

PostNewCommentary ==
    {Request(p, "json", b) : p \in {<<"1">>, <<"2">>}, b \in NewCommentary}

NextCreate ==
    \/ \E req \in PostNewMatches : PostMatches(req, MaxMatches)
    \/ \E req \in PostNewCommentary : PostCommentary(req, MaxCreated)
    \/ \E req \in FirstRow : DeleteMatch(req)

SpecCreate == Init /\ [][NextCreate]_vars

(***************************************************************************)
(* SpecOrder: commentary created for two matches as the clock advances,    *)
(* or does not, and listed.                                                *)
(***************************************************************************)
Listings == {Request(p, "absent", NoInput) : p \in {<<"1">>, <<"2">>, <<"x">>}}

NextOrder ==
    \/ \E req \in OneMatch : PostMatches(req, MaxMatches)
    \/ \E req \in TwoComments : PostCommentary(req, MaxOrdered)
    \/ \E req \in Listings : GetCommentary(req)
    \/ \E req \in FirstRow : DeleteCommentary(req)
    \/ Tick

SpecOrder == Init /\ [][NextOrder]_vars

(***************************************************************************)
(* The claims.                                                             *)
(***************************************************************************)
\* a step that serves a request to the endpoint op
Served(op) == last'.op = op /\ UNCHANGED <<now, inflight>>

\* the request served last reached its handler
ReachedHandler == last.kind # "malformed" /\ DecodeOk(last.param)

ReachesHandler == last'.kind # "malformed" /\ DecodeOk(last'.param)

\* C1: DELETE /matches/m with an integer m answers 200, removes match m and
\* every commentary row of match m and nothing else, and a GET
\* /matches/m/commentary that follows it answers 200 with an empty list.
C1_DeleteCascades ==
    [][/\ (Served("DELETE /matches/:id") /\ ReachesHandler
              /\ parseInt(last'.param) # NaN)
          => /\ last'.status = 200
             /\ matches' = {m \in matches : m.id # parseInt(last'.param)}
             /\ commentary' = {c \in commentary : c.matchId # parseInt(last'.param)}
       /\ (Served("GET /matches/:matchId/commentary") /\ ReachesHandler
              /\ last.op = "DELETE /matches/:id" /\ last.status = 200
              /\ parseInt(last'.param) = parseInt(last.param))
          => last'.status = 200 /\ last'.data = <<>>]_vars

\* a DELETE /matches/1 that took match 1 and its commentary row with it and
\* left match 2 and its commentary row
C1_Witness ==
    /\ last.op = "DELETE /matches/:id" /\ last.status = 200 /\ last.param = <<"1">>
    /\ last.before = <<2, 2>>
    /\ {m.id : m \in matches} = {Num(2)}
    /\ {c.matchId : c \in commentary} = {Num(2)}

\* C3: GET /matches answers with exactly the matches that satisfy every
\* filter supplied.
C3_FiltersCombine ==
    (last.op = "GET /matches" /\ ReachedHandler /\ last.status = 200)
    => {last.data[i] : i \in 1..Len(last.data)}
         = {m \in matches :
               /\ last.input.status # Undefined => m.status = last.input.status
               /\ last.input.sport # Undefined => m.sport = last.input.sport}

\* the body gives every required field of a commentary
RequiredPresent(body) ==
    \A f \in {"sequence", "eventType", "actor", "team", "message"} : body[f] # Undefined

\* C8: POST /matches/:matchId/commentary with every required field present
\* and a matchId that is no match's id answers 400 with an error and leaves
\* both tables as they were.
C8_OrphanRejected ==
    [][(/\ Served("POST /matches/:matchId/commentary") /\ ReachesHandler
        /\ last'.kind = "json" /\ RequiredPresent(last'.input)
        /\ ~\E m \in matches : m.id = parseInt(last'.param))
       => /\ last'.status = 400 /\ last'.error # "" /\ last'.data = <<>>
          /\ commentary' = commentary /\ matches' = matches]_vars

\* a complete commentary for match 2, which does not exist while match 1
\* does, rejected by the foreign key
C8_Witness ==
    /\ last.op = "POST /matches/:matchId/commentary" /\ last.param = <<"2">>
    /\ last.kind = "json" /\ RequiredPresent(last.input)
    /\ last.status = 400 /\ last.error = "violates foreign key constraint"
    /\ {m.id : m \in matches} = {Num(1)}

\* C9 as stated: every request is answered 200, 201, 400 or 404.
C9_NeverInternalError == last.op # "" => last.status \in {200, 201, 400, 404}

\* C9: a request that reaches its handler is answered 200, 201, 400 or 404;
\* a request that express.json() or the router rejects before its handler
\* runs is answered 500 by the error middleware.
C9_HandlersCatch ==
    last.op # "" =>
        IF ReachedHandler THEN last.status \in {200, 201, 400, 404}
        ELSE last.status = 500

\* an error thrown in a handler (a PUT without a body) and answered 400 by
\* the handler's catch block
C9_Witness ==
    /\ last.op = "PUT /matches/:id" /\ last.kind = "absent"
    /\ last.status = 400 /\ last.error = "TypeError"

\* C2: every commentary row's matchId is the id of a match that is there.
C2_NoOrphans == \A c \in commentary : \E m \in matches : m.id = c.matchId

\* a commentary insert whose match was there when the request arrived and
\* was deleted while the request was in flight, rejected by the foreign key
C2_Witness ==
    /\ last.op = "POST /matches/:matchId/commentary" /\ last.sawMatch
    /\ last.status = 400 /\ last.error = "violates foreign key constraint"
    /\ commentary # {}

Supplied(input) == {f \in DOMAIN input : input[f] # Undefined}

\* the table after a PUT that answered 200 differs from the table before it
\* only in the row with the request's id, and that row only in the supplied
\* fields, which hold what was supplied (endTime parsed to a timestamp)
OnlySuppliedChange(before, after, id, input) ==
    /\ Cardinality(after) = Cardinality(before)
    /\ \A r \in before :
           IF r.id # id THEN r \in after
           ELSE \E n \in after :
                    /\ n.id = id
                    /\ \A f \in DOMAIN r \ Supplied(input) : n[f] = r[f]
                    /\ \A f \in Supplied(input) :
                           n[f] = IF f = "endTime" THEN NewDate(input[f]) ELSE input[f]

\* C5: a PUT /matches/:id answered 200 changes only the fields of that match
\* that the body supplies and nothing else in either table; so does a PUT
\* /commentary/:id answered 200.
C5_PartialUpdate ==
    [][/\ (Served("PUT /matches/:id") /\ last'.status = 200)
          => /\ OnlySuppliedChange(matches, matches', parseInt(last'.param), last'.input)
             /\ commentary' = commentary
       /\ (Served("PUT /commentary/:id") /\ last'.status = 200)
          => /\ OnlySuppliedChange(commentary, commentary', parseInt(last'.param),
                                   last'.input)
             /\ matches' = matches]_vars

\* a PUT /matches/1 with only status in its body, answered with the row it
\* made live and whose scores it left alone, beside the untouched match 2
C5_Witness ==
    /\ last.op = "PUT /matches/:id" /\ last.status = 200
    /\ Supplied(last.input) = {"status"}
    /\ last.data[1].status = Str("live")
    /\ last.data[1].homeScore = Num(2) /\ last.data[1].awayScore = Num(0)
    /\ \E m \in matches : m.id = Num(2) /\ m.status = Str("scheduled")

\* every supplied value is one the column takes
ValidUpdate(input) ==
    \A f \in Supplied(input) :
        CASE f = "status" -> input[f].t = "string" /\ input[f].s \in matchStatusEnum
          [] f \in {"homeScore", "awayScore"} -> input[f].t = "number" /\ input[f].s = ""
          [] f = "endTime" -> input[f].t = "string" /\ input[f].s \in DOMAIN DateStrings
          [] f = "message" -> input[f].t = "string"
          [] f = "metadata" -> input[f].t = "object"

\* a PUT answers 200 with the updated row when the id is a row's, and 404
\* with the given error and an unchanged store when it is not
UpdatedOrNotFound(before, after, notFound) ==
    IF \E r \in before : r.id = parseInt(last'.param)
    THEN /\ last'.status = 200
         /\ Len(last'.data) = 1
         /\ last'.data[1] \in after
         /\ last'.data[1].id = parseInt(last'.param)
    ELSE /\ last'.status = 404
         /\ last'.error = notFound
         /\ UNCHANGED <<matches, commentary>>

ValidPut(op) ==
    /\ Served(op) /\ ReachesHandler /\ last'.kind = "json"
    /\ parseInt(last'.param) # NaN /\ ValidUpdate(last'.input)

\* C6 as stated: for every subset of the fields, the empty one included.
C6_EverySubset ==
    [][/\ ValidPut("PUT /matches/:id")
          => UpdatedOrNotFound(matches, matches', "Match not found")
       /\ ValidPut("PUT /commentary/:id")
          => UpdatedOrNotFound(commentary, commentary', "Commentary not found")]_vars

\* C6: for every subset but the empty one; a PUT that supplies none of the
\* fields answers 400 and changes nothing, whether the row is there or not.
C6_EveryNonEmptySubset ==
    [][/\ (ValidPut("PUT /matches/:id") /\ Supplied(last'.input) # {})
          => UpdatedOrNotFound(matches, matches', "Match not found")
       /\ (ValidPut("PUT /commentary/:id") /\ Supplied(last'.input) # {})
          => UpdatedOrNotFound(commentary, commentary', "Commentary not found")
       /\ ((ValidPut("PUT /matches/:id") \/ ValidPut("PUT /commentary/:id"))
              /\ Supplied(last'.input) = {})
          => last'.status = 400 /\ UNCHANGED <<matches, commentary>>]_vars

\* a PUT /commentary/12 with a message and metadata, answered 404 while
\* commentary row 1 is there
C6_Witness ==
    /\ last.op = "PUT /commentary/:id" /\ last.param = <<"1", "2">>
    /\ Supplied(last.input) = {"message", "metadata"}
    /\ last.status = 404 /\ last.error = "Commentary not found"
    /\ \E c \in commentary : c.id = Num(1)

\* a POST /matches answers 201 with a new row that is scheduled, 0-0, without
\* an end time and with an id no match had
CreatedScheduled ==
    /\ last'.status = 201
    /\ Len(last'.data) = 1
    /\ last'.data[1].status = Str("scheduled")
    /\ last'.data[1].homeScore = Num(0) /\ last'.data[1].awayScore = Num(0)
    /\ last'.data[1].endTime = Null
    /\ \A m \in matches : m.id # last'.data[1].id
    /\ matches' = matches \cup {last'.data[1]}

\* C7 as stated: whenever the four required fields are there.
C7_AlwaysCreated ==
    [][(/\ Served("POST /matches") /\ ReachesHandler /\ last'.kind = "json"
        /\ \A f \in {"sport", "homeTeam", "awayTeam", "startTime"} :
               Truthy(last'.input[f]))
       => CreatedScheduled]_vars

\* C7: whenever the four required fields are there and startTime parses to a
\* date.
C7_CreatedScheduled ==
    [][(/\ Served("POST /matches") /\ ReachesHandler /\ last'.kind = "json"
        /\ \A f \in {"sport", "homeTeam", "awayTeam", "startTime"} :
               Truthy(last'.input[f])
        /\ NewDate(last'.input.startTime) # InvalidDate)
       => CreatedScheduled]_vars

\* a POST /matches whose body asks for status live and a home score of 5,
\* answered 201 with a second match, scheduled
C7_Witness ==
    /\ last.op = "POST /matches" /\ last.status = 201
    /\ last.input.status = Str("live") /\ last.input.homeScore = Num(5)
    /\ last.data[1].status = Str("scheduled") /\ last.data[1].id = Num(2)
    /\ last.before[1] = 1

\* C10: the row a POST /matches/:matchId/commentary creates holds each
\* optional field as supplied, and the default where it is not supplied.
C10_OptionalFields ==
    (last.op = "POST /matches/:matchId/commentary" /\ last.status = 201)
    => \A f \in {"minute", "period", "metadata", "tags"} :
           last.data[1][f] = IF last.input[f] # Undefined THEN last.input[f]
                             ELSE IF f = "tags" THEN Arr("") ELSE Null

====
